---- MODULE Spec2Model ----
(***************************************************************************)
(* Model of src/main.py: the weather collection pipeline (fetch, normalise, *)
(* print, persist, query back) and the SQLite store it writes to.          *)
(*                                                                         *)
(* Two specifications share the definitions that model the functions:      *)
(*   Spec       main() run step by step over the configured cities, the    *)
(*              database file surviving from one run to the next;          *)
(*   SpecStore  the store functions (criar_banco_dados, inserir_dados_banco,*)
(*              consultar_dados_banco, conn.close) called in any order.    *)
(***************************************************************************)
EXTENDS Integers, Sequences, FiniteSets, TLC

(***************************************************************************)
(* Bounds of the model: the runs of the program, the rows of the table     *)
(* beyond which no further run starts and the store client appends no      *)
(* more, and the largest limit the store client asks for.                  *)
(***************************************************************************)
MaxExecucoes == 2
MaxLinhas == 3
MaxLimite == 5

(***************************************************************************)
(* JSON / Python values.  Every value is a record of the same shape so     *)
(* that values of different Python types can be stored side by side:       *)
(* t is the type, s the text of a string or number, o the items of a dict, *)
(* l the items of a list.                                                  *)
(***************************************************************************)
None == [t |-> "null", s |-> "", o |-> <<>>, l |-> <<>>]
Str(x) == [t |-> "str", s |-> x, o |-> <<>>, l |-> <<>>]
Num(x) == [t |-> "num", s |-> x, o |-> <<>>, l |-> <<>>]
Dict(f) == [t |-> "obj", s |-> "", o |-> f, l |-> <<>>]
List(q) == [t |-> "list", s |-> "", o |-> <<>>, l |-> q]
EmptyDict == Dict(<<>>)

\* The result of evaluating a Python expression or call: the exception it
\* raised ("" when it raised none) and the value it produced.
Ok(v) == [exc |-> "", val |-> v]
Raise(e) == [exc |-> e, val |-> None]

\* Python truth value of a value (the test `if dados_raw:`).
Truthy(v) ==
    CASE v.t = "null" -> FALSE
      [] v.t = "obj"  -> DOMAIN v.o # {}
      [] v.t = "list" -> Len(v.l) > 0
      [] v.t = "str"  -> v.s # ""
      [] v.t = "num"  -> v.s \notin {"0", "0.0"}

\* d.get(k, default): only a dict has .get; any other receiver raises
\* AttributeError.
DictGet(d, k, default) ==
    IF d.t # "obj" THEN Raise("AttributeError")
    ELSE IF k \in DOMAIN d.o THEN Ok(d.o[k]) ELSE Ok(default)

\* d.get(k1, {}).get(k2)
GetGet(d, k1, k2) ==
    LET r1 == DictGet(d, k1, EmptyDict)
    IN  IF r1.exc # "" THEN r1 ELSE DictGet(r1.val, k2, None)

\* v[0]; indexing a str gives a one-character str, written "?" here.
Index0(v) ==
    CASE v.t = "list" -> IF Len(v.l) > 0 THEN Ok(v.l[1]) ELSE Raise("IndexError")
      [] v.t = "str"  -> IF v.s # "" THEN Ok(Str("?")) ELSE Raise("IndexError")
      [] v.t = "obj"  -> Raise("KeyError")
      [] OTHER        -> Raise("TypeError")

\* d.get('weather', [{}])[0].get('description')
GetWeatherDescription(d) ==
    LET r1 == DictGet(d, "weather", List(<<EmptyDict>>))
        r2 == IF r1.exc # "" THEN r1 ELSE Index0(r1.val)
    IN  IF r2.exc # "" THEN r2 ELSE DictGet(r2.val, "description", None)

\* The first exception of a sequence of results, "" when there is none.
RECURSIVE FirstExc(_)
FirstExc(rs) ==
    IF rs = <<>> THEN ""
    ELSE IF Head(rs).exc # "" THEN Head(rs).exc
    ELSE FirstExc(Tail(rs))

\* datetime.now().strftime('%Y-%m-%d %H:%M:%S') of the instant that lies
\* agora seconds (fewer than 60) after the first run started.
strftime(agora) ==
    Str("2024-01-01 10:00:" \o (IF agora < 10 THEN "0" ELSE "") \o ToString(agora))

(***************************************************************************)
(* estruturar_dados(dados_raw): the thirteen lookups of the dict literal,  *)
(* evaluated in source order; the first one that raises ends the call.     *)
(* agora is the instant datetime.now() returns.                            *)
(***************************************************************************)
estruturar_dados(dados_raw, agora) ==
    LET cidade           == DictGet(dados_raw, "name", None)
        pais             == GetGet(dados_raw, "sys", "country")
        temperatura      == GetGet(dados_raw, "main", "temp")
        sensacao_termica == GetGet(dados_raw, "main", "feels_like")
        temp_minima      == GetGet(dados_raw, "main", "temp_min")
        temp_maxima      == GetGet(dados_raw, "main", "temp_max")
        pressao          == GetGet(dados_raw, "main", "pressure")
        umidade          == GetGet(dados_raw, "main", "humidity")
        descricao        == GetWeatherDescription(dados_raw)
        velocidade_vento == GetGet(dados_raw, "wind", "speed")
        nuvens           == GetGet(dados_raw, "clouds", "all")
        timestamp_api    == DictGet(dados_raw, "dt", None)
        e == FirstExc(<<cidade, pais, temperatura, sensacao_termica,
                        temp_minima, temp_maxima, pressao, umidade, descricao,
                        velocidade_vento, nuvens, timestamp_api>>)
    IN  IF e # "" THEN Raise(e)
        ELSE Ok([cidade           |-> cidade.val,
                 pais             |-> pais.val,
                 temperatura      |-> temperatura.val,
                 sensacao_termica |-> sensacao_termica.val,
                 temp_minima      |-> temp_minima.val,
                 temp_maxima      |-> temp_maxima.val,
                 pressao          |-> pressao.val,
                 umidade          |-> umidade.val,
                 descricao        |-> descricao.val,
                 velocidade_vento |-> velocidade_vento.val,
                 nuvens           |-> nuvens.val,
                 data_hora        |-> strftime(agora),
                 timestamp_api    |-> timestamp_api.val])

\* Mutant: the description is printed as it is, without .capitalize().
exibir_sem_capitalize(dados) == ""

(***************************************************************************)
(* exibir_dados_formatados(dados): the f-strings format any value; only    *)
(* dados['descricao'].capitalize() needs a str.  The result is the         *)
(* exception raised, "" when the block was printed.                        *)
(***************************************************************************)
exibir_dados_formatados(dados) ==
    IF dados.descricao.t = "str" THEN "" ELSE "AttributeError"


(***************************************************************************)
(* obter_dados_clima.  A response of the provider is a record:             *)
(*   tipo    "http", "timeout" (requests.exceptions.Timeout) or            *)
(*           "erro_transporte" (any other RequestException);               *)
(*   status  the HTTP status code;                                         *)
(*   json    whether the body parses as JSON;                              *)
(*   corpo   the parsed body.                                              *)
(* response.json() on a body that is not JSON raises an exception that is  *)
(* a RequestException in requests >= 2.27 and a plain ValueError before;   *)
(* the repository pins no version, so json_erro_capturado is left to the   *)
(* caller to choose.                                                       *)
(* The result is the exception raised, the value returned and the lines    *)
(* printed after the request line.                                         *)
(***************************************************************************)
Formatar(v) ==
    CASE v.t \in {"str", "num"} -> v.s
      [] v.t = "null" -> "None"
      [] v.t = "obj"  -> "{...}"
      [] v.t = "list" -> "[...]"

Retorno(e, v, linhas) == [exc |-> e, val |-> v, diag |-> linhas]

obter_dados_clima(cidade, resposta, json_erro_capturado) ==
    LET json_falhou(antes) ==
            IF json_erro_capturado
            THEN Retorno("", None, antes \o <<"Erro na requisicao: JSONDecodeError">>)
            ELSE Retorno("JSONDecodeError", None, antes)
    IN  CASE resposta.tipo = "timeout" ->
                Retorno("", None, <<"Erro: Timeout na requisicao">>)
          [] resposta.tipo = "erro_transporte" ->
                Retorno("", None, <<"Erro na requisicao: ConnectionError">>)
          [] resposta.tipo = "http" /\ resposta.status = 200 ->
                LET ok == <<"Dados obtidos com sucesso! (Status: 200)">>
                IN  IF resposta.json THEN Retorno("", resposta.corpo, ok)
                    ELSE json_falhou(ok)
          [] OTHER ->
                LET erro == <<"Erro na requisicao: " \o ToString(resposta.status)>>
                    msg  == DictGet(resposta.corpo, "message", Str("Erro desconhecido"))
                IN  IF ~resposta.json THEN json_falhou(erro)
                    ELSE IF msg.exc # "" THEN Retorno(msg.exc, None, erro)
                    ELSE Retorno("", None,
                                 erro \o <<"Mensagem: " \o Formatar(msg.val)>>)

(***************************************************************************)
(* The database file projeto_rpa.db: whether the table dados_clima exists, *)
(* its rows in insertion order, and the AUTOINCREMENT counter SQLite keeps *)
(* in sqlite_sequence.                                                     *)
(***************************************************************************)
ArquivoVazio == [existe |-> FALSE, dados_clima |-> <<>>, sqlite_sequence |-> 0]

Colunas ==
    <<"cidade", "pais", "temperatura", "sensacao_termica", "temp_minima",
      "temp_maxima", "pressao", "umidade", "descricao", "velocidade_vento",
      "nuvens", "data_hora", "timestamp_api">>

ResultadoBanco(e, db) == [exc |-> e, db |-> db]

\* Mutant: the table is dropped and created again on every open.
criar_banco_dados_recria(db, falha) ==
    IF falha THEN ResultadoBanco("OperationalError", db)
    ELSE ResultadoBanco("", [existe |-> TRUE, dados_clima |-> <<>>,
                             sqlite_sequence |-> 0])

\* criar_banco_dados(): connect, CREATE TABLE IF NOT EXISTS, commit.
\* falha is a failure of the storage itself (unreadable or locked file).
criar_banco_dados(db, falha) ==
    IF falha THEN ResultadoBanco("OperationalError", db)
    ELSE IF db.existe THEN ResultadoBanco("", db)
    ELSE ResultadoBanco("", [existe |-> TRUE, dados_clima |-> <<>>,
                             sqlite_sequence |-> 0])

RECURSIVE MaxId(_)
MaxId(linhas) ==
    IF linhas = <<>> THEN 0
    ELSE LET m == MaxId(Tail(linhas))
         IN  IF Head(linhas).id > m THEN Head(linhas).id ELSE m

\* id INTEGER PRIMARY KEY AUTOINCREMENT: one more than the largest id the
\* table ever held.
ProximoId(db) ==
    (IF db.sqlite_sequence > MaxId(db.dados_clima)
     THEN db.sqlite_sequence ELSE MaxId(db.dados_clima)) + 1

Linha(id, dados) == [c \in {"id"} \cup DOMAIN dados |->
                        IF c = "id" THEN id ELSE dados[c]]

\* Mutant: one row per city, INSERT OR REPLACE keyed on cidade.
inserir_dados_banco_upsert(db, dados, falha) ==
    LET id == ProximoId(db)
        outras == SelectSeq(db.dados_clima, LAMBDA r : r.cidade # dados.cidade)
    IN  IF falha THEN ResultadoBanco("OperationalError", db)
        ELSE IF dados.cidade.t = "null" THEN ResultadoBanco("IntegrityError", db)
        ELSE ResultadoBanco("", [db EXCEPT
                 !.dados_clima = Append(outras, Linha(id, dados)),
                 !.sqlite_sequence = id])

\* inserir_dados_banco(conn, dados): one parameterised INSERT and a commit.
\* A dict or list cannot be bound as a parameter (sqlite3.ProgrammingError,
\* InterfaceError before Python 3.11); cidade is NOT NULL; falha
\* is a failure of the storage itself (disk full, locked file).  A failed
\* INSERT leaves the file as it was.
inserir_dados_banco(db, dados, falha) ==
    LET id == ProximoId(db)
    IN  IF \E k \in 1..Len(Colunas) :
               dados[Colunas[k]].t \in {"obj", "list"}
        THEN ResultadoBanco("ProgrammingError", db)
        ELSE IF falha THEN ResultadoBanco("OperationalError", db)
        ELSE IF dados.cidade.t = "null" THEN ResultadoBanco("IntegrityError", db)
        ELSE ResultadoBanco("", [db EXCEPT
                 !.dados_clima = Append(@, Linha(id, dados)),
                 !.sqlite_sequence = id])

\* The rows of a sequence in descending order of id.
RECURSIVE OrderByIdDesc(_)
OrderByIdDesc(linhas) ==
    IF linhas = <<>> THEN <<>>
    ELSE LET m == MaxId(linhas)
             k == CHOOSE j \in 1..Len(linhas) : linhas[j].id = m
         IN  <<linhas[k]>> \o
             OrderByIdDesc(SubSeq(linhas, 1, k - 1) \o
                           SubSeq(linhas, k + 1, Len(linhas)))

\* Mutant: the rows in table order (ORDER BY id ASC).
consultar_dados_banco_asc(db, limite) ==
    LET n == IF limite < 0 \/ limite > Len(db.dados_clima)
             THEN Len(db.dados_clima) ELSE limite
    IN  [k \in 1..n |-> <<db.dados_clima[k].cidade, db.dados_clima[k].temperatura,
                          db.dados_clima[k].descricao, db.dados_clima[k].data_hora>>]

\* consultar_dados_banco(conn, limite): SELECT cidade, temperatura,
\* descricao, data_hora ... ORDER BY id DESC LIMIT ?  (a negative LIMIT is
\* no limit in SQLite).  The result is what fetchall() returns.
consultar_dados_banco(db, limite) ==
    LET ordenadas == OrderByIdDesc(db.dados_clima)
        n == IF limite < 0 \/ limite > Len(ordenadas)
             THEN Len(ordenadas) ELSE limite
    IN  [k \in 1..n |-> <<ordenadas[k].cidade, ordenadas[k].temperatura,
                          ordenadas[k].descricao, ordenadas[k].data_hora>>]

(***************************************************************************)
(* carregar_configuracoes(): the key is a literal of the source.           *)
(***************************************************************************)
carregar_configuracoes ==
    LET api_key == "3a5eb8cc097c4eb15bf47deb31c0f8a6"
    IN  IF api_key = "" THEN [exc |-> "ValueError", val |-> ""]
        ELSE [exc |-> "", val |-> api_key]

\* The cities main() collects, in order.
cidades == <<"London", "Sao Paulo", "New York", "Tokyo", "Paris">>

\* The limit main() passes to consultar_dados_banco.
LimiteMain == 10

\* Exception classes: json.JSONDecodeError is a ValueError; the sqlite3
\* exceptions derive from sqlite3.Error.
EhValueError(e) == e \in {"ValueError", "JSONDecodeError"}
EhSqliteError(e) == e \in {"OperationalError", "IntegrityError", "ProgrammingError"}

\* Mutant: the catch-all clause comes first and shadows the other two.
manipulador_generico_primeiro(e) == "Erro inesperado"

\* The except clause of main() that catches e, named by what it prints.
manipulador(e) ==
    IF EhValueError(e) THEN "Erro de configuracao"
    ELSE IF EhSqliteError(e) THEN "Erro no banco de dados"
    ELSE "Erro inesperado"

(***************************************************************************)
(* What the provider may answer to the request for a city.                 *)
(***************************************************************************)
Descricao == List(<<Dict([description |-> Str("light rain")])>>)

PayloadCompleto(cidade) ==
    Dict([name |-> Str(cidade), sys |-> Dict([country |-> Str("GB")]),
          main |-> Dict([temp |-> Num("15.0"), humidity |-> Num("80")]),
          weather |-> Descricao, wind |-> EmptyDict, clouds |-> EmptyDict,
          dt |-> Num("1700000000")])

Http(status, json, corpo) ==
    [tipo |-> "http", status |-> status, json |-> json, corpo |-> corpo]

Respostas(cidade) ==
    << Http(200, TRUE, PayloadCompleto(cidade)),
       Http(200, TRUE, Dict([name |-> Str(cidade)])),
       Http(200, TRUE, Dict([weather |-> Descricao])),
       Http(200, TRUE, EmptyDict),
       Http(200, TRUE, Dict([name |-> Str(cidade), weather |-> List(<<>>)])),
       Http(200, TRUE, Dict([name |-> Str(cidade), sys |-> None,
                             weather |-> Descricao])),
       Http(404, TRUE, Dict([message |-> Str("city not found")])),
       Http(500, TRUE, EmptyDict),
       Http(502, TRUE, List(<<Str("Bad Gateway")>>)),
       [tipo |-> "timeout", status |-> 0, json |-> FALSE, corpo |-> None],
       [tipo |-> "erro_transporte", status |-> 0, json |-> FALSE, corpo |-> None],
       Http(200, FALSE, None),
       Http(503, FALSE, None) >>

(***************************************************************************)
(* State.                                                                  *)
(*   projeto_rpa_db      the database file                                 *)
(*   conn                the connection: "nenhuma", "aberta", "fechada"    *)
(*   fechamentos         calls of conn.close() since the connection opened *)
(*   pc                  the statement of main() to run next               *)
(*   api_key, indice, dados_raw, dados_estruturados   locals of main()     *)
(*   registros           the rows the last query fetched                   *)
(*   saida               how the run ended: "sucesso" or the except clause *)
(*   origem              the function whose exception ended the run        *)
(*   busca               the latest iteration of the for loop: the index   *)
(*                       and name of its city, the response, the result of *)
(*                       obter_dados_clima, whether the summary was        *)
(*                       printed, the rows appended                        *)
(*   execucao, relogio   the number of the run and the wall clock          *)
(*   ultima_op           the last call on the store: its name, the file    *)
(*                       before it, its argument, the exception it raised  *)
(***************************************************************************)
VARIABLES projeto_rpa_db, conn, fechamentos, pc, api_key, indice, dados_raw,
          dados_estruturados, registros, saida, origem, busca, execucao,
          relogio, ultima_op

vars == <<projeto_rpa_db, conn, fechamentos, pc, api_key, indice, dados_raw,
          dados_estruturados, registros, saida, origem, busca, execucao,
          relogio, ultima_op>>

NenhumaBusca ==
    [indice |-> 0, cidade |-> "", resposta |-> Http(0, FALSE, None),
     retorno |-> Retorno("", None, <<>>), exibido |-> FALSE, linhas |-> 0]

Op(nome, antes, arg, e) ==
    [nome |-> nome, antes |-> antes, arg |-> arg, exc |-> e]

Init ==
    /\ projeto_rpa_db = ArquivoVazio
    /\ conn = "nenhuma"
    /\ fechamentos = 0
    /\ pc = "carregar"
    /\ api_key = ""
    /\ indice = 0
    /\ dados_raw = None
    /\ dados_estruturados = None
    /\ registros = <<>>
    /\ saida = ""
    /\ origem = ""
    /\ busca = NenhumaBusca
    /\ execucao = 1
    /\ relogio = 0
    /\ ultima_op = Op("", ArquivoVazio, 0, "")

\* An exception e raised by funcao leaves the try block: the matching
\* except clause prints its message, the finally clause prints the rule, and
\* main() returns.
Propagar(e, funcao) ==
    /\ saida' = manipulador(e)
    /\ origem' = funcao
    /\ pc' = "fim"

\* The end of one iteration of the for loop: the next city, or the query
\* after the last one.
Avancar ==
    IF indice < Len(cidades)
    THEN pc' = "obter" /\ indice' = indice + 1
    ELSE pc' = "consultar" /\ indice' = indice

\* api_key = carregar_configuracoes()
Carregar ==
    /\ pc = "carregar"
    /\ LET r == carregar_configuracoes
       IN  IF r.exc # ""
           THEN Propagar(r.exc, "carregar_configuracoes") /\ api_key' = api_key
           ELSE api_key' = r.val /\ pc' = "criar" /\ UNCHANGED <<saida, origem>>
    /\ UNCHANGED <<projeto_rpa_db, conn, fechamentos, indice, dados_raw,
                   dados_estruturados, registros, busca, execucao, relogio,
                   ultima_op>>

\* conn = criar_banco_dados(), then the for loop starts.
Criar ==
    /\ pc = "criar"
    /\ \E falha \in BOOLEAN :
         LET r == criar_banco_dados(projeto_rpa_db, falha)
         IN  /\ projeto_rpa_db' = r.db
             /\ ultima_op' = Op("criar_banco_dados", projeto_rpa_db, 0, r.exc)
             /\ IF r.exc # ""
                THEN /\ Propagar(r.exc, "criar_banco_dados")
                     /\ UNCHANGED <<conn, fechamentos, indice>>
                ELSE /\ conn' = "aberta"
                     /\ fechamentos' = 0
                     /\ IF Len(cidades) > 0
                        THEN pc' = "obter" /\ indice' = 1
                        ELSE pc' = "consultar" /\ indice' = 0
                     /\ UNCHANGED <<saida, origem>>
    /\ UNCHANGED <<api_key, dados_raw, dados_estruturados, registros, busca,
                   execucao, relogio>>

\* dados_raw = obter_dados_clima(cidade, api_key) and the test `if dados_raw:`
Obter ==
    /\ pc = "obter"
    /\ \E k \in 1..Len(Respostas(cidades[indice])), json_erro_capturado \in BOOLEAN :
         LET resposta == Respostas(cidades[indice])[k]
             r == obter_dados_clima(cidades[indice], resposta, json_erro_capturado)
         IN  /\ busca' = [indice |-> indice, cidade |-> cidades[indice],
                          resposta |-> resposta, retorno |-> r,
                          exibido |-> FALSE, linhas |-> 0]
             /\ IF r.exc # ""
                THEN Propagar(r.exc, "obter_dados_clima")
                     /\ UNCHANGED <<indice, dados_raw>>
                ELSE /\ dados_raw' = r.val
                     /\ IF Truthy(r.val)
                        THEN pc' = "estruturar" /\ indice' = indice
                        ELSE Avancar
                     /\ UNCHANGED <<saida, origem>>
    /\ UNCHANGED <<projeto_rpa_db, conn, fechamentos, api_key,
                   dados_estruturados, registros, execucao, relogio, ultima_op>>

\* dados_estruturados = estruturar_dados(dados_raw)
Estruturar ==
    /\ pc = "estruturar"
    /\ LET r == estruturar_dados(dados_raw, relogio)
       IN  IF r.exc # ""
           THEN Propagar(r.exc, "estruturar_dados")
                /\ UNCHANGED dados_estruturados
           ELSE /\ dados_estruturados' = r.val
                /\ pc' = "exibir"
                /\ UNCHANGED <<saida, origem>>
    /\ UNCHANGED <<projeto_rpa_db, conn, fechamentos, api_key, indice, dados_raw,
                   registros, busca, execucao, relogio, ultima_op>>

\* exibir_dados_formatados(dados_estruturados)
Exibir ==
    /\ pc = "exibir"
    /\ LET e == exibir_dados_formatados(dados_estruturados)
       IN  IF e # ""
           THEN Propagar(e, "exibir_dados_formatados") /\ UNCHANGED busca
           ELSE /\ busca' = [busca EXCEPT !.exibido = TRUE]
                /\ pc' = "inserir"
                /\ UNCHANGED <<saida, origem>>
    /\ UNCHANGED <<projeto_rpa_db, conn, fechamentos, api_key, indice, dados_raw,
                   dados_estruturados, registros, execucao, relogio, ultima_op>>

\* inserir_dados_banco(conn, dados_estruturados), then the end of the
\* iteration.
Inserir ==
    /\ pc = "inserir"
    /\ \E falha \in BOOLEAN :
         LET r == inserir_dados_banco(projeto_rpa_db, dados_estruturados, falha)
         IN  /\ projeto_rpa_db' = r.db
             /\ ultima_op' = Op("inserir_dados_banco", projeto_rpa_db,
                                 dados_estruturados, r.exc)
             /\ IF r.exc # ""
                THEN Propagar(r.exc, "inserir_dados_banco")
                     /\ UNCHANGED <<indice, busca>>
                ELSE /\ busca' = [busca EXCEPT !.linhas = @ + 1]
                     /\ Avancar
                     /\ UNCHANGED <<saida, origem>>
    /\ UNCHANGED <<conn, fechamentos, api_key, dados_raw, dados_estruturados,
                   registros, execucao, relogio>>

\* consultar_dados_banco(conn, limite=10)
Consultar ==
    /\ pc = "consultar"
    /\ registros' = consultar_dados_banco(projeto_rpa_db, LimiteMain)
    /\ ultima_op' = Op("consultar_dados_banco", projeto_rpa_db, LimiteMain, "")
    /\ pc' = "fechar"
    /\ UNCHANGED <<projeto_rpa_db, conn, fechamentos, api_key, indice, dados_raw,
                   dados_estruturados, saida, origem, busca, execucao, relogio>>

\* conn.close(), the two closing prints and the finally clause.
Fechar ==
    /\ pc = "fechar"
    /\ conn' = "fechada"
    /\ fechamentos' = fechamentos + 1
    /\ ultima_op' = Op("close", projeto_rpa_db, 0, "")
    /\ saida' = "sucesso"
    /\ pc' = "fim"
    /\ UNCHANGED <<projeto_rpa_db, api_key, indice, dados_raw,
                   dados_estruturados, registros, origem, busca, execucao,
                   relogio>>

\* The program is started again later; only the database file is kept.
\* (Runs are counted up to MaxExecucoes and started while the table holds
\* fewer than MaxLinhas rows.)
NovaExecucao ==
    /\ pc = "fim"
    /\ execucao < MaxExecucoes
    /\ Len(projeto_rpa_db.dados_clima) < MaxLinhas
    /\ execucao' = execucao + 1
    /\ relogio' = relogio + 1
    /\ pc' = "carregar"
    /\ conn' = "nenhuma"
    /\ fechamentos' = 0
    /\ api_key' = ""
    /\ indice' = 0
    /\ dados_raw' = None
    /\ dados_estruturados' = None
    /\ registros' = <<>>
    /\ saida' = ""
    /\ origem' = ""
    /\ busca' = NenhumaBusca
    /\ UNCHANGED <<projeto_rpa_db, ultima_op>>

Next ==
    \/ Carregar
    \/ Criar
    \/ Obter
    \/ Estruturar
    \/ Exibir
    \/ Inserir
    \/ Consultar
    \/ Fechar
    \/ NovaExecucao

Spec == Init /\ [][Next]_vars

(***************************************************************************)
(* The store on its own: its four operations called in any order by a      *)
(* client that opens a connection before it uses it.                       *)
(***************************************************************************)
CidadesStore == <<"A", "B", "C">>
Instantes == {0, 1}

\* The readings a client may append: a full reading of each city at each
\* instant, and one without a city.
Leituras ==
    [k \in 1..(Len(CidadesStore) + 1) |->
        [t \in Instantes |->
            IF k <= Len(CidadesStore)
            THEN estruturar_dados(PayloadCompleto(CidadesStore[k]), t).val
            ELSE estruturar_dados(Dict([weather |-> Descricao]), t).val]]

principal == <<pc, api_key, indice, dados_raw, dados_estruturados, saida,
               origem, busca, execucao, relogio>>

StoreAbrir ==
    /\ \E falha \in BOOLEAN :
         LET r == criar_banco_dados(projeto_rpa_db, falha)
         IN  /\ projeto_rpa_db' = r.db
             /\ ultima_op' = Op("criar_banco_dados", projeto_rpa_db, 0, r.exc)
             /\ IF r.exc # "" THEN UNCHANGED <<conn, fechamentos>>
                ELSE conn' = "aberta" /\ fechamentos' = 0
    /\ UNCHANGED <<registros, principal>>

StoreInserir ==
    /\ conn = "aberta"
    /\ Len(projeto_rpa_db.dados_clima) < MaxLinhas
    /\ \E k \in DOMAIN Leituras, t \in Instantes, falha \in BOOLEAN :
         LET r == inserir_dados_banco(projeto_rpa_db, Leituras[k][t], falha)
         IN  /\ projeto_rpa_db' = r.db
             /\ ultima_op' = Op("inserir_dados_banco", projeto_rpa_db,
                                Leituras[k][t], r.exc)
    /\ UNCHANGED <<conn, fechamentos, registros, principal>>

StoreConsultar ==
    /\ conn = "aberta"
    /\ \E limite \in 0..MaxLimite :
         /\ registros' = consultar_dados_banco(projeto_rpa_db, limite)
         /\ ultima_op' = Op("consultar_dados_banco", projeto_rpa_db, limite, "")
    /\ UNCHANGED <<projeto_rpa_db, conn, fechamentos, principal>>

StoreFechar ==
    /\ conn = "aberta"
    /\ conn' = "fechada"
    /\ fechamentos' = fechamentos + 1
    /\ ultima_op' = Op("close", projeto_rpa_db, 0, "")
    /\ UNCHANGED <<projeto_rpa_db, registros, principal>>

NextStore ==
    \/ StoreAbrir
    \/ StoreInserir
    \/ StoreConsultar
    \/ StoreFechar

SpecStore == Init /\ [][NextStore]_vars

(***************************************************************************)
(* Vocabulary of the properties.                                           *)
(***************************************************************************)
\* The latest fetch failed: a non-200 status, a timeout or a transport error.
BuscaFalhou ==
    /\ busca.indice > 0
    /\ \/ busca.resposta.tipo \in {"timeout", "erro_transporte"}
       \/ busca.resposta.tipo = "http" /\ busca.resposta.status # 200

\* The latest fetch succeeded: HTTP 200 with a JSON object as body.
BuscaSucesso ==
    /\ busca.indice > 0
    /\ busca.resposta.tipo = "http"
    /\ busca.resposta.status = 200
    /\ busca.resposta.json
    /\ busca.resposta.corpo.t = "obj"

\* The iteration of the latest city is over: the loop is at the next city
\* or past the last one, or the run has ended.
IteracaoEncerrada == busca.indice > 0 /\ pc \notin {"estruturar", "exibir", "inserir"}

\* The run went on after the latest city: the next city is about to be
\* fetched, or the loop is over and the run is completing normally.
ExecucaoSeguiu ==
    \/ pc = "obter" /\ indice = busca.indice + 1
    \/ pc \in {"consultar", "fechar"} /\ busca.indice = Len(cidades)
    \/ pc = "fim" /\ saida = "sucesso"

\* The run was ended by an except clause of main().
ExecucaoAbortada == pc = "fim" /\ saida # "sucesso"

\* weather[0].description of a payload is missing or null.
DescricaoAusente(payload) ==
    LET r == GetWeatherDescription(payload)
    IN  r.exc # "" \/ r.val.t = "null"

\* The run was ended by an exception of one of the two store functions.
ErroDeArmazenamento == origem \in {"criar_banco_dados", "inserir_dados_banco"}

Tabela == projeto_rpa_db.dados_clima

Projecao(linha) == <<linha.cidade, linha.temperatura, linha.descricao, linha.data_hora>>

IsPrefix(p, q) == Len(p) <= Len(q) /\ SubSeq(q, 1, Len(p)) = p

IdsCrescentes(linhas) ==
    \A j, k \in 1..Len(linhas) : j < k => linhas[j].id < linhas[k].id

(***************************************************************************)
(* C1: in main, a city whose fetch fails (non-200 status, timeout or       *)
(* transport error) gets no row, and the loop goes on to the next city:    *)
(* a failed fetch never ends the run.                                      *)
(***************************************************************************)
C1_FalhaNaoEncerra ==
    BuscaFalhou => busca.linhas = 0 /\ ExecucaoSeguiu

(***************************************************************************)
(* C2: in main, every city whose fetch succeeds (HTTP 200 with a JSON      *)
(* object, whatever its other fields) gets exactly one row, whose cidade   *)
(* is non-null and equal to the 'name' of the payload.  Stated for the     *)
(* payloads that carry a name, the ones for which such a row exists.       *)
(***************************************************************************)
C2_SucessoUmaLinha ==
    (BuscaSucesso /\ IteracaoEncerrada
        /\ "name" \in DOMAIN busca.resposta.corpo.o) =>
        /\ busca.linhas = 1
        /\ Len(Tabela) > 0
        /\ Tabela[Len(Tabela)].cidade # None
        /\ Tabela[Len(Tabela)].cidade = busca.resposta.corpo.o["name"]

(***************************************************************************)
(* C3: estruturar_dados is total: for any JSON object payload it raises    *)
(* nothing, and every field other than cidade whose source path is absent  *)
(* is null in the record it returns.                                       *)
(***************************************************************************)
C3_EstruturarTotal ==
    (pc = "estruturar" /\ dados_raw.t = "obj") =>
        LET r == estruturar_dados(dados_raw, relogio)
            ausente(k) == k \notin DOMAIN dados_raw.o
        IN  /\ r.exc = ""
            /\ ausente("sys") => r.val.pais = None
            /\ ausente("main") => /\ r.val.temperatura = None
                                  /\ r.val.sensacao_termica = None
                                  /\ r.val.temp_minima = None
                                  /\ r.val.temp_maxima = None
                                  /\ r.val.pressao = None
                                  /\ r.val.umidade = None
            /\ DescricaoAusente(dados_raw) => r.val.descricao = None
            /\ ausente("wind") => r.val.velocidade_vento = None
            /\ ausente("clouds") => r.val.nuvens = None
            /\ ausente("dt") => r.val.timestamp_api = None

(***************************************************************************)
(* C4: the connection opened by criar_banco_dados is closed exactly once   *)
(* on every exit path of main, normal or exceptional.                      *)
(***************************************************************************)
C4_FechadaUmaVez ==
    (pc = "fim" /\ conn # "nenhuma") => conn = "fechada" /\ fechamentos = 1

(***************************************************************************)
(* C5: obter_dados_clima never raises for a provider or transport failure: *)
(* for every non-200 response, timeout or transport failure it prints a    *)
(* diagnostic and returns None.                                            *)
(***************************************************************************)
C5_ObterNuncaLevanta ==
    BuscaFalhou =>
        /\ busca.retorno.exc = ""
        /\ busca.retorno.val = None
        /\ Len(busca.retorno.diag) > 0
        /\ origem # "obter_dados_clima"

(***************************************************************************)
(* C6: consultar_dados_banco with limit N fetches min(N, rows) rows, the   *)
(* most recently inserted ones, newest first by primary key; with N above  *)
(* the row count it fetches all rows; after rows for A, B, C were appended *)
(* in that order, N = 2 gives [C, B].                                      *)
(***************************************************************************)
C6_RecentesPrimeiro ==
    ultima_op.nome = "consultar_dados_banco" =>
        LET n == ultima_op.arg
            total == Len(Tabela)
        IN  /\ Len(registros) <= n
            /\ Len(registros) = IF n < total THEN n ELSE total
            /\ \A k \in 1..Len(registros) :
                 /\ registros[k] = Projecao(Tabela[total - k + 1])
                 /\ \A j \in 1..(total - k) :
                        Tabela[j].id < Tabela[total - k + 1].id
            /\ (n = 2 /\ total >= 3
                  /\ Tabela[total - 2].cidade = Str("A")
                  /\ Tabela[total - 1].cidade = Str("B")
                  /\ Tabela[total].cidade = Str("C"))
               => /\ Len(registros) = 2
                  /\ registros[1][1] = Str("C")
                  /\ registros[2][1] = Str("B")

C6_Witness ==
    /\ ultima_op.nome = "consultar_dados_banco"
    /\ ultima_op.arg = 2
    /\ Len(Tabela) = 3
    /\ Tabela[1].cidade = Str("A")
    /\ Tabela[2].cidade = Str("B")
    /\ Tabela[3].cidade = Str("C")
    /\ Len(registros) = 2
    /\ registros[1][1] = Str("C")

(***************************************************************************)
(* C7: criar_banco_dados on a file that already holds the table leaves the *)
(* table and every row of it unchanged.                                    *)
(***************************************************************************)
C7_CriarIdempotente ==
    (ultima_op.nome = "criar_banco_dados" /\ ultima_op.antes.existe) =>
        projeto_rpa_db = ultima_op.antes

C7_Witness ==
    /\ ultima_op.nome = "criar_banco_dados"
    /\ ultima_op.exc = ""
    /\ ultima_op.antes.existe
    /\ Len(ultima_op.antes.dados_clima) >= 2
    /\ conn = "aberta"

(***************************************************************************)
(* C8: a storage error raised by criar_banco_dados or inserir_dados_banco  *)
(* during main is caught and reported by the sqlite3.Error clause, and     *)
(* ends the run: no further city is fetched, no further row is appended,   *)
(* the final query is not executed, and the rows committed before it stay. *)
(***************************************************************************)
C8_ErroArmazenamentoTerminal ==
    /\ [](ErroDeArmazenamento =>
            /\ pc = "fim"
            /\ saida = "Erro no banco de dados"
            /\ ultima_op.nome = origem
            /\ EhSqliteError(ultima_op.exc)
            /\ projeto_rpa_db = ultima_op.antes
            /\ registros = <<>>)
    /\ [][ErroDeArmazenamento =>
            /\ projeto_rpa_db' = projeto_rpa_db
            /\ registros' = <<>>
            /\ busca' = busca \/ execucao' = execucao + 1]_vars

C8_Witness ==
    /\ origem = "inserir_dados_banco"
    /\ saida = "Erro no banco de dados"
    /\ busca.indice >= 2
    /\ busca.indice < Len(cidades)
    /\ Len(Tabela) >= 1

(***************************************************************************)
(* C9: dados_clima is an append-only log: no call on the store updates or  *)
(* deletes a row, the table only grows at its end with strictly increasing *)
(* primary keys, and appending a reading of a city that already has a row  *)
(* adds a new row.                                                         *)
(***************************************************************************)
C9_SomenteAcrescenta ==
    [][/\ IsPrefix(Tabela, Tabela')
       /\ IdsCrescentes(Tabela')
       /\ (ultima_op'.nome = "inserir_dados_banco" /\ ultima_op'.exc = "")
            => /\ Tabela' = Append(ultima_op'.antes.dados_clima,
                                   Linha(Tabela'[Len(Tabela')].id, ultima_op'.arg))
               /\ Tabela'[Len(Tabela')].id > MaxId(ultima_op'.antes.dados_clima)]_vars

C9_Witness ==
    /\ Len(Tabela) = 3
    /\ Tabela[1].cidade = Tabela[3].cidade
    /\ Tabela[1].id < Tabela[3].id
    /\ ultima_op.nome = "inserir_dados_banco"
    /\ ultima_op.exc = ""

(***************************************************************************)
(* C10 as stated: main appends a reading only after the summary was        *)
(* printed; every row main persists has a non-null description; a          *)
(* successfully fetched payload without a description gets no row and ends *)
(* the run before the remaining cities are fetched.                        *)
(***************************************************************************)
C10_Original ==
    /\ busca.linhas > 0 => busca.exibido
    /\ \A k \in 1..Len(Tabela) : Tabela[k].descricao # None
    /\ (BuscaSucesso /\ DescricaoAusente(busca.resposta.corpo)) =>
          /\ busca.linhas = 0
          /\ IteracaoEncerrada => ExecucaoAbortada /\ indice = busca.indice

(***************************************************************************)
(* C10 amended: main appends a reading only after the summary was printed; *)
(* every row main persists has a non-null description; a successfully      *)
(* fetched non-empty payload without a description gets no row and ends    *)
(* the run before the remaining cities are fetched, while an empty payload *)
(* ({}) gets no row and the run goes on to the next city.                  *)
(***************************************************************************)
C10_Amended ==
    /\ busca.linhas > 0 => busca.exibido
    /\ \A k \in 1..Len(Tabela) : Tabela[k].descricao # None
    /\ (BuscaSucesso /\ DescricaoAusente(busca.resposta.corpo)) =>
          /\ busca.linhas = 0
          /\ (IteracaoEncerrada /\ Truthy(busca.resposta.corpo))
                => ExecucaoAbortada /\ indice = busca.indice
          /\ (IteracaoEncerrada /\ ~Truthy(busca.resposta.corpo))
                => ExecucaoSeguiu

C10_Witness ==
    /\ BuscaSucesso
    /\ busca.resposta.corpo = Dict([name |-> Str(busca.cidade)])
    /\ origem = "exibir_dados_formatados"
    /\ saida = "Erro inesperado"
    /\ pc = "fim"
    /\ busca.indice = 2
    /\ Len(Tabela) = 1

====
